---- MODULE Spec2Model ----
(***************************************************************************)
(* The resilient HTTP client core of the Hyperstack MCP server             *)
(* (src/src/client/base.py, BaseAsyncClient): session lifecycle            *)
(* (connect/close), the rate limiter (an asyncio.Semaphore), the request   *)
(* body with its exception translation, and the aioretry decorator driven  *)
(* by _retry_policy.  Logical requests are asyncio tasks: a step of the    *)
(* model is the code that runs between two suspension points.  On top of   *)
(* it: the client singleton (src/src/client/hyperstack.py, get_client) and *)
(* the tool handlers with validate_response (src/src/handlers).            *)
(***************************************************************************)
EXTENDS Integers, Sequences, FiniteSets, TLC

(* ---------------------------- bounds ----------------------------------- *)
NumReq == 2          \* concurrent logical requests (tasks calling request())
MaxSessions == 2     \* ClientSession objects ever constructed
Permits == 1         \* settings.rate_limit_requests, scaled down
MaxCalls == 4        \* cap on the transport calls of one logical request
ShortLen == 9        \* characters of a short response body
MaxBaseLen == 2      \* characters of the base_url given to the constructor
MaxEndpointLen == 3  \* characters of the endpoint given to request()
MaxInstances == 2    \* HyperstackClient objects ever constructed

(* ------------------------ program constants ---------------------------- *)
HTTP_NO_CONTENT == 204
HTTP_TOO_MANY_REQUESTS == 429
HTTP_INTERNAL_SERVER_ERROR == 500
MAX_RETRY_ATTEMPTS == 3
BaseDelayMs == 500   \* 0.5 s, in milliseconds
PreviewLen == 200    \* text[:200], the body preview that is logged
REQUEST_TIMEOUT == 30  \* settings.request_timeout
MAX_RETRIES == 3       \* settings.max_retries

Reqs == 1..NumReq
SessionIds == 1..MaxSessions

(* What one transport call can yield: a response (by status and body) or   *)
(* a transport-level exception.                                            *)
Outcomes ==
  {"ok", "noContent", "noContentBody", "badJson", "badJsonLong",
   "s404", "s429", "s503", "connErr", "timeout"}

\* The failures the specification calls retryable: connection error,
\* timeout, HTTP status >= 500, HTTP 429.
Transient == {"s429", "s503", "connErr", "timeout"}
\* Outcomes that end a logical request on the first attempt that sees them.
Terminal == Outcomes \ Transient

StatusOf(o) ==
  CASE o = "ok" -> 200
    [] o \in {"badJson", "badJsonLong"} -> 200
    [] o \in {"noContent", "noContentBody"} -> 204
    [] o = "s404" -> 404
    [] o = "s429" -> 429
    [] o = "s503" -> 503
    [] OTHER -> 0

\* The body of a response: JSON, text that is no JSON, or nothing.
BodyKind(o) ==
  CASE o \in {"ok", "s404", "s429", "s503"} -> "json"
    [] o \in {"badJson", "badJsonLong", "noContentBody"} -> "text"
    [] OTHER -> "empty"

\* Its length in characters.
BodyLen(o) ==
  CASE o = "badJsonLong" -> PreviewLen + 1
    [] o \in {"badJson", "noContentBody"} -> ShortLen
    [] BodyKind(o) = "json" -> 3 * ShortLen
    [] OTHER -> 0

(* --------------------------- exceptions -------------------------------- *)
\* What an error carries as response_body: nothing, `len` characters of the
\* response's text, or str() of the aiohttp exception (its length is of no
\* interest here).
Body(src, len) == [src |-> src, len |-> len]
NoBody == Body("none", 0)
ExcStr == Body("str(e)", 0)

\* An exception is its class, the status code it carries (0: none), the
\* prefix of its message and its response_body.
Exc(cls, status, msg) == [cls |-> cls, status |-> status, msg |-> msg, body |-> NoBody]
WithBody(e, b) == [e EXCEPT !.body = b]
NoExc == Exc("none", 0, "")

\* isinstance(e, aiohttp.ClientError)
IsClientError(e) ==
  e.cls \in {"ClientError", "ClientResponseError", "ClientConnectorError",
             "ServerTimeoutError"}

\* isinstance(e, asyncio.TimeoutError), which is builtins.TimeoutError
IsTimeoutError(e) == e.cls \in {"TimeoutError", "ServerTimeoutError"}

Min(a, b) == IF a <= b THEN a ELSE b

\* RetryPolicy that never abandons.
RetryPolicyNeverAbandons(fails, e) == [stop |-> FALSE, delay |-> BaseDelayMs]

\* ParseBody that puts the logged preview into the error.
ParseBodyPreview(o) ==
  IF BodyKind(o) = "json"
    THEN [ret |-> "payload", exc |-> NoExc, preview |-> 0]
    ELSE [ret |-> "none",
          exc |-> WithBody(Exc("APIError", StatusOf(o), "Invalid response format"),
                           Body("text", Min(BodyLen(o), PreviewLen))),
          preview |-> Min(BodyLen(o), PreviewLen)]

(* _handle_response, "Parse JSON response": response.json(), or an         *)
(* APIError with the status and the text of the body, after logging the    *)
(* first PreviewLen characters of the text.                                *)
ParseBody(o) ==
  IF BodyKind(o) = "json"
    THEN [ret |-> "payload", exc |-> NoExc, preview |-> 0]
    ELSE [ret |-> "none",
          exc |-> WithBody(Exc("APIError", StatusOf(o), "Invalid response format"),
                           Body("text", BodyLen(o))),
          preview |-> Min(BodyLen(o), PreviewLen)]

\* HandleResponse without the test for 204.
HandleResponseNo204(o) ==
  CASE o = "connErr" ->
         [ret |-> "none", exc |-> Exc("ClientConnectorError", 0, ""), preview |-> 0]
    [] o = "timeout" ->
         [ret |-> "none", exc |-> Exc("TimeoutError", 0, ""), preview |-> 0]
    [] StatusOf(o) >= 400 ->
         [ret |-> "none", exc |-> Exc("ClientResponseError", StatusOf(o), ""),
          preview |-> 0]
    [] OTHER -> ParseBody(o)

(* The transport call and _handle_response: the payload returned, or the   *)
(* exception raised, for a transport outcome.  A transport-level exception *)
(* is raised by the call itself; raise_for_status() raises for a status    *)
(* >= 400; 204 gives {} without a look at the body.                        *)
HandleResponse(o) ==
  CASE o = "connErr" ->
         [ret |-> "none", exc |-> Exc("ClientConnectorError", 0, ""), preview |-> 0]
    [] o = "timeout" ->
         [ret |-> "none", exc |-> Exc("TimeoutError", 0, ""), preview |-> 0]
    [] StatusOf(o) >= 400 ->
         [ret |-> "none", exc |-> Exc("ClientResponseError", StatusOf(o), ""),
          preview |-> 0]
    [] StatusOf(o) = HTTP_NO_CONTENT -> [ret |-> "empty", exc |-> NoExc, preview |-> 0]
    [] OTHER -> ParseBody(o)

\* Translate with the except clauses left out: the raw exception leaves
\* request().
TranslateNothing(e) == e

(* The except clauses of request(), in their order.                        *)
Translate(e) ==
  IF IsTimeoutError(e) THEN Exc("RequestTimeoutError", 0, "timed out")
  ELSE IF e.cls = "ClientResponseError"
    THEN IF e.status = HTTP_TOO_MANY_REQUESTS
           THEN WithBody(Exc("RateLimitError", e.status, "Rate limit exceeded"), ExcStr)
           ELSE WithBody(Exc("APIError", e.status, "HTTP"), ExcStr)
  ELSE IF IsClientError(e) THEN Exc("APIError", 0, "Client error")
  ELSE e

\* The attributes an exception of class `cls` has (src/exceptions.py).
Attributes(cls) ==
  CASE cls \in {"APIError", "RateLimitError"} ->
         {"message", "code", "details", "status_code", "response_body"}
    [] cls = "RetryExhaustedError" ->
         {"message", "code", "details", "attempts", "last_error"}
    [] cls = "RequestTimeoutError" -> {"message", "code", "details"}
    [] OTHER -> {}

(* _should_retry: defined by the client, called by nothing.                *)
ShouldRetry(e, attempt, maxRetries) ==
  IF attempt >= maxRetries THEN FALSE
  ELSE IF e.cls = "ClientResponseError"
    THEN e.status >= HTTP_INTERNAL_SERVER_ERROR \/ e.status = HTTP_TOO_MANY_REQUESTS
  ELSE e.cls \in {"ClientConnectorError", "ServerTimeoutError", "TimeoutError"}

(* _retry_policy: (abandon, delay) for the exception that left request()   *)
(* and the number of failures so far; the delay is in milliseconds.        *)
RetryPolicy(fails, e) ==
  IF e.cls # "none" /\ (IsClientError(e) \/ IsTimeoutError(e))
    THEN IF fails >= MAX_RETRY_ATTEMPTS
           THEN [stop |-> TRUE, delay |-> 0]
           ELSE [stop |-> FALSE, delay |-> BaseDelayMs * (2 ^ (fails - 1))]
    ELSE [stop |-> TRUE, delay |-> 0]


(* ----------------------------- state ----------------------------------- *)
VARIABLES
  rateLimited,  \* self._rate_limiter is a Semaphore (rate limiting enabled)
  permits,      \* the semaphore's value: permits available
  waiters,      \* the semaphore's FIFO queue of requests waiting in acquire()
  held,         \* the requests inside "async with self._rate_limiter"
  session,      \* self._session: 0 is None, else the id of a ClientSession
  created,      \* ClientSession objects constructed so far (ids 1..created)
  closedSet,    \* the sessions whose .closed is true
  closeCalls,   \* per session, the times its transport was closed
  creator,      \* per session, who constructed it: connect() or request()
  lastOp,       \* what the last explicit connect()/close() call did
  faults,       \* transport: the first `faults` attempts of a request fail
  final,        \* transport: what the later attempts yield
  pc,           \* per request, where its task is suspended
  fails,        \* per request, RetryInfo.fails
  calls,        \* per request, transport calls started
  outs,         \* per request, what its transport calls yielded
  delays,       \* per request, the backoff delays slept (ms)
  decision,     \* per request, the last value of _retry_policy, the failure
                \* count it was given and what had failed
  result,       \* per request, the payload returned or exception raised
  via,          \* per request, the session its transport call in flight uses
  ctor,         \* the arguments the client was constructed with
  cfg,          \* self.base_url, self.headers, self.timeout, self.max_retries
  arg,          \* the arguments of the latest request() call
  sent,         \* what that call handed to self._session.request()
  client,       \* the module global _client: 0 is None, else an instance id
  instances,    \* HyperstackClient objects constructed so far
  returned,     \* the instances get_client()/initialize_client() have returned
  reply         \* per request, what the tool handler that made it returned

vars == <<rateLimited, permits, waiters, held, session, created, closedSet,
          closeCalls, creator, lastOp, faults, final, pc, fails, calls, outs,
          delays, decision, result, via, ctor, cfg, arg, sent,
          client, instances, returned, reply>>

limiterVars == <<permits, waiters, held>>
sessionVars == <<session, created, closedSet, closeCalls, creator>>
transportVars == <<faults, final>>
requestVars == <<pc, fails, calls, outs, delays, decision, result, via>>
callVars == <<ctor, cfg, arg, sent>>
toolVars == <<client, instances, returned, reply>>

NoDecision == [stop |-> FALSE, delay |-> -1, n |-> 0, on |-> "none"]

\* What a tool call has returned: nothing yet.  `given` is the payload the
\* client returned to it and `data` the payload in its answer, each a set
\* of one payload at most.
NoReply == [kind |-> "none", code |-> "", message |-> "", given |-> {}, data |-> {}]

(* BaseAsyncClient.__init__: no session; a semaphore of N permits when     *)
(* settings.rate_limit_enabled.  The transport's behaviour is the          *)
(* environment's: any number of leading transient failures, then any       *)
(* terminal outcome.                                                       *)
InitCore ==
  /\ rateLimited \in BOOLEAN
  /\ permits = IF rateLimited THEN Permits ELSE 0
  /\ waiters = <<>>
  /\ held = {}
  /\ session = 0
  /\ created = 0
  /\ closedSet = {}
  /\ closeCalls = [s \in SessionIds |-> 0]
  /\ creator = [s \in SessionIds |-> "none"]
  /\ lastOp = "none"
  /\ faults \in 0..MAX_RETRY_ATTEMPTS
  /\ final \in Terminal
  /\ pc = [r \in Reqs |-> "idle"]
  /\ fails = [r \in Reqs |-> 0]
  /\ calls = [r \in Reqs |-> 0]
  /\ outs = [r \in Reqs |-> <<>>]
  /\ delays = [r \in Reqs |-> <<>>]
  /\ decision = [r \in Reqs |-> NoDecision]
  /\ result = [r \in Reqs |-> NoExc]
  /\ via = [r \in Reqs |-> 0]
  /\ reply = [r \in Reqs |-> NoReply]

(* ---------------- configuration and call arguments -------------------- *)
\* None, for an optional int argument.
NoneT == 0 - 1
\* "x or default": None and 0 are falsy.
Falsy(t) == t <= 0

\* Strings are sequences of characters; "a" stands for any character that
\* is no slash.
Chars == {"/", "a"}
Strings(n) == UNION {[1..k -> Chars] : k \in 0..n}

\* A dict of headers is a set of <<name, value>> pairs, one pair per name;
\* None and {} are both the empty set.
Keys(h) == {p[1] : p \in h}

\* settings.get_auth_headers()
AuthHeaders == {<<"Accept", "application/json">>, <<"api-key", "key">>}

\* What HyperstackClient.__init__ passes.
HyperstackCtor ==
  [base_url |-> <<"a">>, headers |-> AuthHeaders,
   timeout |-> REQUEST_TIMEOUT, max_retries |-> MAX_RETRIES]

\* The constructor arguments tried: every base_url with the other arguments
\* of HyperstackClient, and every choice of the other arguments with one
\* base_url (no attribute is computed from two arguments).
Ctors ==
  [base_url : Strings(MaxBaseLen), headers : {AuthHeaders},
   timeout : {REQUEST_TIMEOUT}, max_retries : {MAX_RETRIES}]
  \cup [base_url : {<<"a">>}, headers : {{}, AuthHeaders},
        timeout : {NoneT, REQUEST_TIMEOUT}, max_retries : {NoneT, MAX_RETRIES}]

\* The request() arguments tried.
PerCallHeaders ==
  {{}, {<<"X-Trace", "t">>}, {<<"Accept", "text/plain">>},
   {<<"Accept", "text/plain">>, <<"X-Trace", "t">>}}
PerCallTimeout == REQUEST_TIMEOUT + 1
\* Every endpoint without the optional arguments, and every choice of the
\* optional arguments with one endpoint.
Args ==
  [endpoint : Strings(MaxEndpointLen), headers : {{}}, timeout : {NoneT}]
  \cup [endpoint : {<<"a">>}, headers : PerCallHeaders,
        timeout : {NoneT, 0, PerCallTimeout}]

NoArg == [endpoint |-> <<>>, headers |-> {}, timeout |-> NoneT]
\* Nothing handed to the transport yet: a URL is never empty.
NoSent == [url |-> <<>>, headers |-> {}, timeout |-> 0]

\* str.rstrip("/")
RECURSIVE RStrip(_)
RStrip(str) ==
  IF str # <<>> /\ str[Len(str)] = "/" THEN RStrip(SubSeq(str, 1, Len(str) - 1)) ELSE str

\* LStrip that drops one slash at most.
LStripOne(str) == IF str # <<>> /\ Head(str) = "/" THEN Tail(str) ELSE str

\* str.lstrip("/")
RECURSIVE LStrip(_)
LStrip(str) == IF str # <<>> /\ Head(str) = "/" THEN LStrip(Tail(str)) ELSE str

\* f"{self.base_url}/{endpoint.lstrip('/')}"
JoinUrl(base, endpoint) == base \o <<"/">> \o LStrip(endpoint)

\* MergeHeaders with the default winning.
MergeHeadersDefaultWins(def, per) ==
  def \cup {p \in per : p[1] \notin Keys(def)}

\* {**self.headers, **(headers or {})}
MergeHeaders(def, per) ==
  {p \in def : p[1] \notin Keys(per)} \cup per

\* timeout or self.timeout
ResolveTimeout(def, per) == IF Falsy(per) THEN def ELSE per

\* BaseAsyncClient.__init__: the attributes set from the arguments.
Construct(c) ==
  [base_url |-> RStrip(c.base_url),
   headers |-> c.headers,
   timeout |-> IF Falsy(c.timeout) THEN REQUEST_TIMEOUT ELSE c.timeout,
   max_retries |-> IF Falsy(c.max_retries) THEN MAX_RETRIES ELSE c.max_retries]

\* SelfAfterRequest for a request() that updates self.headers in place.
SelfAfterRequestUpdating(c, a) ==
  [c EXCEPT !.headers = MergeHeaders(c.headers, a.headers)]

\* The attributes of the client after the first lines of request(), which
\* read them into new objects.
SelfAfterRequest(c, a) == c

(* The client of the server (HyperstackClient), before any call.           *)
Init ==
  /\ InitCore
  /\ ctor = HyperstackCtor
  /\ cfg = Construct(ctor)
  /\ arg = NoArg
  /\ sent = NoSent
  /\ client = 1 /\ instances = 1 /\ returned = {1}

(* A client constructed with any arguments, against a transport that       *)
(* answers at once.                                                        *)
InitCall ==
  /\ InitCore
  /\ rateLimited /\ faults = 0 /\ final = "ok"
  /\ ctor \in Ctors
  /\ cfg = Construct(ctor)
  /\ arg = NoArg
  /\ sent = NoSent
  /\ client = 1 /\ instances = 1 /\ returned = {1}


(* ----------------------- session lifecycle ----------------------------- *)
\* NeedsSession with the test left out: connect() always constructs.
NeedsSessionAlways(sess, closedS) == TRUE

\* connect(): "self._session is None or self._session.closed"
NeedsSession(sess, closedS) == sess = 0 \/ sess \in closedS

\* request(): "not self._session" (a ClientSession object is always truthy)
MissingSession(sess) == sess = 0

\* IsOpen without "not self._session.closed".
IsOpenIgnoringClosed(sess, closedS) == sess # 0

\* close(): "self._session and not self._session.closed"
IsOpen(sess, closedS) == sess # 0 /\ sess \notin closedS

\* The body of connect(), called by `who`.
DoConnect(who) ==
  IF NeedsSession(session, closedSet)
    THEN /\ created < MaxSessions
         /\ created' = created + 1
         /\ session' = created + 1
         /\ creator' = [creator EXCEPT ![created + 1] = who]
         /\ UNCHANGED <<closedSet, closeCalls>>
    ELSE UNCHANGED sessionVars

Connect ==
  /\ DoConnect("connect")
  /\ lastOp' = IF NeedsSession(session, closedSet) THEN "connect_new" ELSE "connect_noop"
  /\ UNCHANGED <<rateLimited, limiterVars, transportVars, requestVars, callVars, toolVars>>

Close ==
  /\ IF IsOpen(session, closedSet)
       THEN /\ closedSet' = closedSet \cup {session}
            /\ closeCalls' = [closeCalls EXCEPT ![session] = @ + 1]
            /\ lastOp' = "close_closed"
       ELSE /\ UNCHANGED <<closedSet, closeCalls>>
            /\ lastOp' = "close_noop"
  /\ UNCHANGED <<session, created, creator>>
  /\ UNCHANGED <<rateLimited, limiterVars, transportVars, requestVars, callVars, toolVars>>


(* --------------------------- rate limiter ------------------------------ *)
\* Semaphore.locked(): no permit left, or somebody already waits.
Locked == permits = 0 \/ waiters # <<>>

\* Release that gives nothing back.
ReleaseNothing(p) == p

\* Semaphore.release(), on leaving "async with self._rate_limiter".
Release(p) == p + 1

RemoveWaiter(q, r) == SelectSeq(q, LAMBDA x : x # r)

\* UsesLimiter for a client that enters the semaphore whether it has one
\* or not.
UsesLimiterAlways(rl) == TRUE

\* _apply_rate_limit: "if self._rate_limiter"
UsesLimiter(rl) == rl

(* ------------------------ the retry decorator -------------------------- *)
\* request() returned `ret`: the decorator returns it.
AfterReturn(r, ret) ==
  /\ pc' = [pc EXCEPT ![r] = "done"]
  /\ result' = [result EXCEPT ![r] = Exc(ret, 0, "")]
  /\ UNCHANGED <<fails, decision, delays>>

\* request() raised `e` (because of `why`): the decorator counts the
\* failure, asks _retry_policy, and re-raises or sleeps for the delay.
AfterRaise(r, e, why) ==
  LET n == fails[r] + 1
      d == RetryPolicy(n, e)
  IN /\ fails' = [fails EXCEPT ![r] = n]
     /\ decision' = [decision EXCEPT ![r] =
                       [stop |-> d.stop, delay |-> d.delay, n |-> n, on |-> why]]
     /\ IF d.stop
          THEN /\ pc' = [pc EXCEPT ![r] = "done"]
               /\ result' = [result EXCEPT ![r] = e]
               /\ UNCHANGED delays
          ELSE /\ pc' = [pc EXCEPT ![r] = "backoff"]
               /\ delays' = [delays EXCEPT ![r] = Append(@, d.delay)]
               /\ UNCHANGED result

(* --------------------------- request() --------------------------------- *)
\* "async with self._session.request(...)": a closed session raises
\* RuntimeError before anything is sent; an open one starts the call.
BeginTransport(r, sess, closedS) ==
  IF sess \in closedS
    THEN /\ AfterRaise(r, Translate(Exc("RuntimeError", 0, "Session is closed")),
                    "sessionClosed")
         /\ UNCHANGED <<calls, via, outs>>
    ELSE /\ pc' = [pc EXCEPT ![r] = "inflight"]
         /\ calls' = [calls EXCEPT ![r] = @ + 1]
         /\ via' = [via EXCEPT ![r] = sess]
         /\ UNCHANGED <<fails, decision, delays, result, outs>>

\* CanCall for a decorator that does not wait for the call it made.
CanCallWhileInFlight(p) == p \in {"idle", "backoff", "inflight"}

\* The decorator awaits each call of request() before it decides on the
\* next one: a call starts from the beginning or after the backoff sleep.
CanCall(p) == p \in {"idle", "backoff"}

(* The decorator calls request(): the first time, or again after the       *)
(* backoff sleep.  request() connects if there is no session and enters    *)
(* _apply_rate_limit; with no limiter it goes on to the transport call.    *)
Attempt(r) ==
  /\ CanCall(pc[r])
  /\ calls[r] < MaxCalls
  /\ IF MissingSession(session) THEN DoConnect("request") ELSE UNCHANGED sessionVars
  /\ IF UsesLimiter(rateLimited)
       THEN /\ IF Locked
                 THEN /\ waiters' = Append(waiters, r)
                      /\ pc' = [pc EXCEPT ![r] = "waiting"]
                      /\ UNCHANGED <<permits, held>>
                 ELSE /\ permits' = permits - 1
                      /\ held' = held \cup {r}
                      /\ pc' = [pc EXCEPT ![r] = "holding"]
                      /\ UNCHANGED waiters
            /\ UNCHANGED <<fails, calls, outs, delays, decision, result, via>>
       ELSE /\ BeginTransport(r, session', closedSet')
            /\ UNCHANGED limiterVars
  /\ UNCHANGED <<rateLimited, lastOp, transportVars, callVars, toolVars>>

(* A released permit wakes the first waiter, which takes it.               *)
Acquire(r) ==
  /\ pc[r] = "waiting"
  /\ waiters # <<>> /\ Head(waiters) = r
  /\ permits > 0
  /\ permits' = permits - 1
  /\ waiters' = Tail(waiters)
  /\ held' = held \cup {r}
  /\ pc' = [pc EXCEPT ![r] = "holding"]
  /\ UNCHANGED <<fails, calls, outs, delays, decision, result, via>>
  /\ UNCHANGED <<rateLimited, sessionVars, lastOp, transportVars, callVars, toolVars>>

(* After "await asyncio.sleep(0)" the with-block ends: the permit goes     *)
(* back, _apply_rate_limit returns, and the transport call starts.         *)
Send(r) ==
  /\ pc[r] = "holding"
  /\ permits' = Release(permits)
  /\ held' = held \ {r}
  /\ UNCHANGED waiters
  /\ BeginTransport(r, session, closedSet)
  /\ UNCHANGED <<rateLimited, sessionVars, lastOp, transportVars, callVars, toolVars>>

\* What the transport yields to the call in flight of r: its i-th call
\* fails transiently while i <= faults, and yields `final` afterwards; a
\* call whose session was closed under it may also end in a connection error.
Yields(r) ==
  (IF calls[r] <= faults THEN Transient ELSE {final})
    \cup (IF via[r] \in closedSet THEN {"connErr"} ELSE {})

(* The transport call ends: _handle_response, the except clauses, then     *)
(* the decorator.                                                          *)
Respond(r) ==
  /\ pc[r] = "inflight"
  /\ \E o \in Yields(r) :
       LET h == HandleResponse(o)
       IN /\ outs' = [outs EXCEPT ![r] = Append(@, o)]
          /\ IF h.exc = NoExc
               THEN AfterReturn(r, h.ret)
               ELSE AfterRaise(r, Translate(h.exc), o)
  /\ via' = [via EXCEPT ![r] = 0]
  /\ UNCHANGED calls
  /\ UNCHANGED <<rateLimited, limiterVars, sessionVars, lastOp, transportVars, callVars, toolVars>>

(* The task running request() is cancelled at a suspension point:          *)
(* CancelledError is no Exception, the decorator lets it through; a        *)
(* with-block being left gives its permit back.                            *)
Cancel(r) ==
  /\ pc[r] \in {"waiting", "holding", "inflight", "backoff"}
  /\ pc' = [pc EXCEPT ![r] = "done"]
  /\ result' = [result EXCEPT ![r] = Exc("CancelledError", 0, "")]
  /\ via' = [via EXCEPT ![r] = 0]
  /\ waiters' = RemoveWaiter(waiters, r)
  /\ IF r \in held
       THEN permits' = Release(permits) /\ held' = held \ {r}
       ELSE UNCHANGED <<permits, held>>
  /\ UNCHANGED <<fails, calls, outs, delays, decision>>
  /\ UNCHANGED <<rateLimited, sessionVars, lastOp, transportVars, callVars, toolVars>>

Next ==
  \/ Connect
  \/ Close
  \/ \E r \in Reqs : Attempt(r)
  \/ \E r \in Reqs : Acquire(r)
  \/ \E r \in Reqs : Send(r)
  \/ \E r \in Reqs : Respond(r)
  \/ \E r \in Reqs : Cancel(r)

Spec == Init /\ [][Next]_vars

(* request(), up to the transport call, with its arguments: the session is *)
(* made if there is none, and the URL, the headers and the timeout of the  *)
(* call are worked out from the arguments and the client's attributes.     *)
Call(a) ==
  /\ IF MissingSession(session) THEN DoConnect("request") ELSE UNCHANGED sessionVars
  /\ arg' = a
  /\ sent' = [url |-> JoinUrl(cfg.base_url, a.endpoint),
              headers |-> MergeHeaders(cfg.headers, a.headers),
              timeout |-> ResolveTimeout(cfg.timeout, a.timeout)]
  /\ cfg' = SelfAfterRequest(cfg, a)
  /\ UNCHANGED <<ctor, rateLimited, lastOp, limiterVars, transportVars, requestVars,
                 toolVars>>

NextCall ==
  \/ Connect
  \/ Close
  \/ \E a \in Args : Call(a)

SpecCall == InitCall /\ [][NextCall]_vars


(* ------------------------- tool handlers ------------------------------- *)
\* A payload (the dict request() returned) by what validate_response looks
\* at: whether it is empty, has an "error" key, what its "status" and
\* "error_code" are, and whether the response schema accepts it.
EmptyPayload ==
  [empty |-> TRUE, error |-> FALSE, status |-> "absent", error_code |-> "absent",
   valid |-> FALSE]
Payloads ==
  {EmptyPayload}
  \cup [empty : {FALSE}, error : BOOLEAN, status : {"absent", "true", "false"},
        error_code : {"absent", "E_CODE"}, valid : BOOLEAN]

\* response.get("error_code", "API_ERROR")
CodeOf(p) == IF p.error_code = "absent" THEN "API_ERROR" ELSE p.error_code

\* ValidateResponse with the test for the "error" key after the others.
ValidateResponseErrorLast(p) ==
  IF p.empty
    THEN [raised |-> TRUE, code |-> "EMPTY_RESPONSE", message |-> "Empty response", ret |-> {}]
  ELSE IF p.status = "false"
    THEN [raised |-> TRUE, code |-> CodeOf(p), message |-> "message", ret |-> {}]
  ELSE IF ~p.valid
    THEN [raised |-> TRUE, code |-> "VALIDATION_ERROR", message |-> "Invalid response", ret |-> {}]
  ELSE IF p.error
    THEN [raised |-> TRUE, code |-> CodeOf(p), message |-> "error", ret |-> {}]
  ELSE [raised |-> FALSE, code |-> "", message |-> "", ret |-> {p}]

(* BaseHandler.validate_response: the HyperstackMCPError raised (its code  *)
(* and where its message comes from), or the payload returned.             *)
ValidateResponse(p) ==
  IF p.empty
    THEN [raised |-> TRUE, code |-> "EMPTY_RESPONSE", message |-> "Empty response", ret |-> {}]
  ELSE IF p.error
    THEN [raised |-> TRUE, code |-> CodeOf(p), message |-> "error", ret |-> {}]
  ELSE IF p.status = "false"
    THEN [raised |-> TRUE, code |-> CodeOf(p), message |-> "message", ret |-> {}]
  ELSE IF ~p.valid
    THEN [raised |-> TRUE, code |-> "VALIDATION_ERROR", message |-> "Invalid response", ret |-> {}]
  ELSE [raised |-> FALSE, code |-> "", message |-> "", ret |-> {p}]

\* isinstance(e, HyperstackMCPError)
IsMCPError(e) == e.cls \in {"APIError", "RateLimitError", "RequestTimeoutError"}

\* The tool whose handler makes request r.
ToolOf(r) == IF r % 2 = 1 THEN "create_vm" ELSE "delete_vm"
\* The code the handler of a tool gives to format_error_response.
ErrorCodeOf(tool) == IF tool = "create_vm" THEN "create_vm_error" ELSE "delete_vm_error"

\* format_error_response: ErrorSchema(success = False, status = "error",
\* message = err.message, code = the handler's code).
FormatError(tool, message, given) ==
  [kind |-> "error", code |-> ErrorCodeOf(tool), message |-> message,
   given |-> given, data |-> {}]

\* format_success_response: create_vm passes data = validated, delete_vm
\* passes no data.
FormatSuccess(tool, given, validated) ==
  [kind |-> "success", code |-> "", message |-> tool, given |-> given,
   data |-> IF tool = "create_vm" THEN validated ELSE {}]

\* Returned that forgets that a 204 gave {}.
ReturnedAnyPayload(res) == Payloads \ {EmptyPayload}

\* What the client returned to the handler: {} for "empty", else any dict.
Returned(res) == IF res.cls = "empty" THEN {EmptyPayload} ELSE Payloads

\* Catches for a handler without its except clause.
CatchesNothing(e) == FALSE

\* "except HyperstackMCPError as e"
Catches(e) == IsMCPError(e)

(* The rest of a tool handler (create_vm, delete_vm) once the client call  *)
(* has ended: validate_response and the success response, or the error     *)
(* response for a HyperstackMCPError; any other exception leaves the       *)
(* handler.                                                                *)
Handle(r) ==
  /\ pc[r] = "done"
  /\ reply[r] = NoReply
  /\ IF result[r].cls \in {"payload", "empty"}
       THEN \E p \in Returned(result[r]) :
              LET v == ValidateResponse(p)
              IN reply' = [reply EXCEPT ![r] =
                             IF v.raised
                               THEN FormatError(ToolOf(r), v.message, {p})
                               ELSE FormatSuccess(ToolOf(r), {p}, v.ret)]
       ELSE reply' = [reply EXCEPT ![r] =
                        IF Catches(result[r])
                          THEN FormatError(ToolOf(r), result[r].msg, {})
                          ELSE [kind |-> "escaped", code |-> "", message |-> result[r].cls,
                                given |-> {}, data |-> {}]]
  /\ UNCHANGED <<client, instances, returned>>
  /\ UNCHANGED <<rateLimited, limiterVars, sessionVars, lastOp, transportVars,
                 requestVars, callVars>>

\* IsUnset that never finds the global set.
IsUnsetAlways(c) == TRUE

\* get_client(): "if _client is None"
IsUnset(c) == c = 0

\* get_client(): HyperstackClient() once, then the instance kept in _client.
GetOrCreate ==
  /\ IF IsUnset(client)
       THEN /\ instances < MaxInstances
            /\ instances' = instances + 1
            /\ client' = instances + 1
       ELSE UNCHANGED <<client, instances>>
  /\ returned' = returned \cup {client'}

(* get_client(), as BaseHandler.__init__ and any other caller call it.     *)
GetClient ==
  /\ GetOrCreate
  /\ UNCHANGED reply
  /\ UNCHANGED <<rateLimited, limiterVars, sessionVars, lastOp, transportVars,
                 requestVars, callVars>>

(* initialize_client(): get_client(), then connect() on what it returned.  *)
InitializeClient ==
  /\ GetOrCreate
  /\ DoConnect("connect")
  /\ lastOp' = IF NeedsSession(session, closedSet) THEN "connect_new" ELSE "connect_noop"
  /\ UNCHANGED reply
  /\ UNCHANGED <<rateLimited, limiterVars, transportVars, requestVars, callVars>>

(* The server: nothing imported yet, so no client; every handler module    *)
(* gets the client when imported, and the tools then make their requests.  *)
InitTool ==
  /\ InitCore
  /\ faults <= 1
  /\ ctor = HyperstackCtor
  /\ cfg = Construct(ctor)
  /\ arg = NoArg
  /\ sent = NoSent
  /\ client = 0 /\ instances = 0 /\ returned = {}

NextTool ==
  \/ GetClient
  \/ InitializeClient
  \/ client # 0 /\ \E r \in Reqs : Attempt(r)
  \/ \E r \in Reqs : Acquire(r)
  \/ \E r \in Reqs : Send(r)
  \/ \E r \in Reqs : Respond(r)
  \/ \E r \in Reqs : Cancel(r)
  \/ \E r \in Reqs : Handle(r)

SpecTool == InitTool /\ [][NextTool]_vars


(* --------------------------- scheduling -------------------------------- *)
\* The values of max_retries a client is constructed with: below and above
\* MAX_RETRY_ATTEMPTS.
RetryCtors ==
  [base_url : {<<"a">>}, headers : {AuthHeaders}, timeout : {REQUEST_TIMEOUT},
   max_retries : {MAX_RETRY_ATTEMPTS - 2, MAX_RETRY_ATTEMPTS + 2}]

(* A rate-limited client with any max_retries, against a transport that    *)
(* answers every call, at once or after MAX_RETRY_ATTEMPTS failures.       *)
InitLive ==
  /\ InitCore
  /\ rateLimited
  /\ faults \in {0, MAX_RETRY_ATTEMPTS}
  /\ final = "ok"
  /\ ctor \in RetryCtors
  /\ cfg = Construct(ctor)
  /\ arg = NoArg
  /\ sent = NoSent
  /\ client = 1 /\ instances = 1 /\ returned = {1}

(* The event loop runs every task that is ready: a woken waiter takes its  *)
(* permit, a task past sleep(0) goes on, a backoff sleep ends; and every   *)
(* transport call completes.  Whether a request is made at all, connect(), *)
(* close() and cancellation are up to the callers.                         *)
Fairness ==
  \A r \in Reqs :
    /\ WF_vars(Acquire(r))
    /\ WF_vars(Send(r))
    /\ WF_vars(Respond(r))
    /\ WF_vars(pc[r] = "backoff" /\ Attempt(r))

SpecLive == InitLive /\ [][Next]_vars /\ Fairness


(* ------------------------------ claims --------------------------------- *)
Done(r) == pc[r] = "done"
InFlight == {r \in Reqs : pc[r] = "inflight"}
LiveSessions == (1..created) \ closedSet
Successes == {"ok", "noContent"}
Last(q) == q[Len(q)]

\* The transport calls of r yielded what the transport had in store for
\* them, and r was neither cancelled nor refused by a closed session.
AsPlanned(r) ==
  /\ result[r].cls \notin {"CancelledError", "RuntimeError"}
  /\ \A i \in 1..Len(outs[r]) :
       outs[r][i] \in (IF i <= faults THEN Transient ELSE {final})

\* What request() raises for a failed transport outcome.
Raised(o) == Translate(HandleResponse(o).exc)

\* C1: a logical request whose transport calls yield k < MAX_RETRY_ATTEMPTS
\* retryable failures and then a success returns the success payload after
\* exactly k + 1 transport calls.
C1_RetriesUntilSuccess ==
  \A r \in Reqs :
    (Done(r) /\ AsPlanned(r) /\ faults < MAX_RETRY_ATTEMPTS /\ final \in Successes)
      => /\ result[r].cls \in {"payload", "empty"}
         /\ calls[r] = faults + 1

\* C2: a logical request whose transport calls all fail with retryable
\* failures makes exactly MAX_RETRY_ATTEMPTS transport calls, then raises
\* the failure of the last attempt.
C2_AbandonsAfterMaxAttempts ==
  \A r \in Reqs :
    (Done(r) /\ AsPlanned(r) /\ faults >= MAX_RETRY_ATTEMPTS)
      => /\ calls[r] = MAX_RETRY_ATTEMPTS
         /\ result[r] = Raised(Last(outs[r]))

\* C3: with rate limiting enabled, every transport call in flight holds a
\* permit, so at most Permits calls are in flight at once.
C3_InFlightWithinPermits ==
  rateLimited =>
    /\ Cardinality(InFlight) <= Permits
    /\ \A r \in InFlight : r \in held

\* C4: a 4xx response other than 429 (404) on the first attempt ends the
\* logical request at once: one transport call, an HTTP/API error carrying
\* the status, no backoff delay.
C4_NonRetryableStatusOnce ==
  \A r \in Reqs :
    (outs[r] # <<>> /\ outs[r][1] = "s404")
      => /\ Done(r)
         /\ calls[r] = 1
         /\ outs[r] = <<"s404">>
         /\ result[r].cls = "APIError" /\ result[r].status = 404
         /\ result[r].msg = "HTTP"
         /\ delays[r] = <<>>
         /\ decision[r].stop /\ decision[r].delay = 0

C4_Witness ==
  \E r \in Reqs : Done(r) /\ outs[r] = <<"s404">> /\ result[r].cls = "APIError"

\* C5: the retry decision treats a failure as retryable exactly when it is
\* a connection error, a timeout, a status >= 500 or a 429; any other
\* failure is abandoned with zero delay.
C5_RetryableClassification ==
  \A r \in Reqs :
    decision[r].on \in Outcomes =>
      /\ (decision[r].on \in Transient /\ decision[r].n < MAX_RETRY_ATTEMPTS)
           => ~decision[r].stop
      /\ decision[r].on \notin Transient
           => (decision[r].stop /\ decision[r].delay = 0)

\* C6: the n-th retryable failure of a logical request, n <
\* MAX_RETRY_ATTEMPTS, is followed by a delay of exactly 0.5 s * 2^(n-1);
\* from n = MAX_RETRY_ATTEMPTS on the decision is to stop with zero delay.
C6_BackoffSchedule ==
  \A r \in Reqs :
    /\ decision[r].on \in Transient =>
         IF decision[r].n < MAX_RETRY_ATTEMPTS
           THEN /\ ~decision[r].stop
                /\ decision[r].delay = BaseDelayMs * (2 ^ (decision[r].n - 1))
           ELSE decision[r].stop /\ decision[r].delay = 0
    /\ \A i \in 1..Len(delays[r]) : delays[r][i] = BaseDelayMs * (2 ^ (i - 1))

\* C7: every permit acquired is given back exactly once on every exit
\* path: permits available plus permits held is always N, with 0 <= held
\* <= N, and when every request has finished all N are available.
C7_PermitsConserved ==
  LET N == IF rateLimited THEN Permits ELSE 0
  IN /\ permits >= 0
     /\ Cardinality(held) <= N
     /\ permits + Cardinality(held) = N
     /\ held = {r \in Reqs : pc[r] = "holding"}
     /\ (\A r \in Reqs : Done(r)) => (permits = N /\ held = {})

C7_Witness ==
  /\ rateLimited
  /\ \A r \in Reqs : Done(r)
  /\ \E r \in Reqs : result[r].cls = "CancelledError" /\ calls[r] = 0
  /\ \E r \in Reqs : result[r].cls \in {"APIError", "payload"}
  /\ permits = Permits

\* C8: connect() with a live session keeps that session and constructs
\* nothing; a session is constructed only when there is none or the
\* existing one is closed; at most one session is live.
C8_ConnectIdempotent ==
  /\ [](Cardinality(LiveSessions) <= 1)
  /\ [][/\ (session # 0 /\ session \notin closedSet)
             => (session' = session /\ created' = created)
        /\ created' # created
             => /\ (session = 0 \/ session \in closedSet)
                /\ created' = created + 1
                /\ session' = created']_vars

C8_Witness ==
  /\ lastOp = "connect_noop"
  /\ created = 1 /\ creator[1] = "connect"
  /\ session = 1 /\ LiveSessions = {1}

\* C9: close() closes the session if it is open and otherwise changes
\* nothing; it can always be called; a session's transport is closed at
\* most once.
C9_CloseIdempotent ==
  /\ [](\A s \in SessionIds :
          /\ closeCalls[s] <= 1
          /\ (s \in closedSet <=> closeCalls[s] = 1))
  /\ [](ENABLED Close)
  /\ [][(session = 0 \/ session \in closedSet)
          => (closedSet' = closedSet /\ closeCalls' = closeCalls)]_vars

C9_Witness ==
  /\ lastOp = "close_noop"
  /\ session = 1 /\ closedSet = {1} /\ closeCalls[1] = 1

\* C10: a request() that touches a closed session fails with a connection
\* error, and request() never constructs a session in place of a closed
\* one.
C10_ClosedSessionIsConnectionError ==
  /\ \A r \in Reqs :
       (Done(r) /\ decision[r].on = "sessionClosed")
         => result[r] = Exc("APIError", 0, "Client error")
  /\ \A s \in 1..created : creator[s] = "request" => s = 1


\* C11: a response with status 204 makes request() return the empty
\* object, whatever its body, after exactly one transport call.
C11_NoContentIsEmptyObject ==
  \A r \in Reqs :
    (outs[r] # <<>> /\ StatusOf(outs[r][1]) = 204)
      => /\ Done(r)
         /\ result[r] = Exc("empty", 0, "")
         /\ calls[r] = 1 /\ Len(outs[r]) = 1
         /\ fails[r] = 0 /\ delays[r] = <<>>

C11_Witness ==
  \E r \in Reqs :
    Done(r) /\ outs[r] = <<"noContentBody">> /\ result[r].cls = "empty"

InvalidFormat == {o \in Outcomes : StatusOf(o) = 200 /\ BodyKind(o) # "json"}

\* C12 as stated: a 200 response whose body is no JSON raises an
\* invalid-response-format failure after exactly one transport call, never
\* retried, carrying the status code and a body preview of at most
\* PreviewLen characters.
C12_InvalidFormatCarriesPreview ==
  \A r \in Reqs :
    (outs[r] # <<>> /\ outs[r][1] \in InvalidFormat)
      => /\ Done(r)
         /\ calls[r] = 1 /\ delays[r] = <<>>
         /\ result[r].cls = "APIError"
         /\ result[r].msg = "Invalid response format"
         /\ result[r].status = 200
         /\ result[r].body.src = "text"
         /\ result[r].body.len <= PreviewLen

\* C12 as amended: the failure carries the status code and the whole text
\* of the body; the preview of at most PreviewLen characters is what is
\* logged.
C12_InvalidFormatCarriesBody ==
  \A r \in Reqs :
    (outs[r] # <<>> /\ outs[r][1] \in InvalidFormat)
      => /\ Done(r)
         /\ calls[r] = 1 /\ delays[r] = <<>>
         /\ decision[r].stop /\ decision[r].n = 1
         /\ result[r].cls = "APIError"
         /\ result[r].msg = "Invalid response format"
         /\ result[r].status = 200
         /\ result[r].body = Body("text", BodyLen(outs[r][1]))
         /\ HandleResponse(outs[r][1]).preview <= PreviewLen

C12_Witness ==
  \E r \in Reqs :
    /\ Done(r) /\ outs[r] = <<"badJsonLong">>
    /\ result[r].cls = "APIError" /\ result[r].body.len > PreviewLen

\* The outcomes of all transport calls of r were `o`.
AllOuts(r, o) == outs[r] # <<>> /\ \A i \in 1..Len(outs[r]) : outs[r][i] = o

Schedule(n) == [i \in 1..n |-> BaseDelayMs * (2 ^ (i - 1))]

\* C13: HTTP 429 is retried on the backoff schedule of a server error, and
\* when the attempts are used up the caller gets a RateLimitError.
C13_RateLimitRetriedThenDistinct ==
  \A r \in Reqs :
    (Done(r) /\ AsPlanned(r) /\ faults >= MAX_RETRY_ATTEMPTS /\ AllOuts(r, "s429"))
      => /\ calls[r] = MAX_RETRY_ATTEMPTS
         /\ delays[r] = Schedule(MAX_RETRY_ATTEMPTS - 1)
         /\ result[r].cls = "RateLimitError"

\* C14: a timeout is retried like a connection error, up to
\* MAX_RETRY_ATTEMPTS attempts, and a logical request that ends on a
\* timeout raises RequestTimeoutError.
C14_TimeoutRetriedThenSpecific ==
  \A r \in Reqs :
    (Done(r) /\ AsPlanned(r) /\ faults >= MAX_RETRY_ATTEMPTS /\ AllOuts(r, "timeout"))
      => /\ calls[r] = MAX_RETRY_ATTEMPTS
         /\ delays[r] = Schedule(MAX_RETRY_ATTEMPTS - 1)
         /\ result[r].cls = "RequestTimeoutError"

\* C15: the failure raised for a response that is not 2xx carries the
\* status code of the response and its raw body, whole.
C15_HttpErrorCarriesRawBody ==
  \A r \in Reqs :
    (Done(r) /\ outs[r] # <<>> /\ decision[r].on = Last(outs[r])
       /\ StatusOf(Last(outs[r])) >= 400)
      => /\ result[r].status = StatusOf(Last(outs[r]))
         /\ result[r].body = Body("text", BodyLen(Last(outs[r])))

\* C16: the failure the caller gets is that of the last attempt, and it
\* carries the status code, the body and the number of attempts made.
C16_FailureCarriesAttempts ==
  \A r \in Reqs :
    (Done(r) /\ outs[r] # <<>> /\ decision[r].on = Last(outs[r]))
      => /\ result[r].cls = Raised(Last(outs[r])).cls
         /\ {"status_code", "response_body", "attempts"} \subseteq Attributes(result[r].cls)

\* Transport calls of r started and not yet ended.
Pending(r) == calls[r] - Len(outs[r])

\* C17: the attempts of one logical request are sequential: it has at most
\* one transport call in flight, whatever the other requests do, and a
\* call after the first starts only when every earlier one has failed and
\* a backoff delay was slept for each failure.
C17_AttemptsSequential ==
  \A r \in Reqs :
    /\ Pending(r) \in {0, 1}
    /\ pc[r] = "inflight" <=> (Pending(r) = 1 /\ ~Done(r))
    /\ (Pending(r) = 1 /\ Done(r)) => result[r].cls = "CancelledError"
    /\ pc[r] = "inflight" =>
         /\ \A i \in 1..Len(outs[r]) : HandleResponse(outs[r][i]).exc # NoExc
         /\ Len(delays[r]) = fails[r]
         /\ fails[r] >= calls[r] - 1

C17_Witness ==
  \E r1, r2 \in Reqs :
    /\ r1 # r2
    /\ pc[r1] = "inflight" /\ pc[r2] = "inflight"
    /\ Pending(r1) = 1 /\ Pending(r2) = 1

\* A request() call has handed its URL, headers and timeout to the transport.
Called == sent.url # <<>>

\* C18: the headers sent are the default headers merged with the per-call
\* headers: every per-call header is sent as given, every default header
\* whose name the call does not give is sent, nothing else is sent, and
\* each name is sent once.
C18_HeadersMergedPerCallWins ==
  Called =>
    /\ arg.headers \subseteq sent.headers
    /\ \A p \in cfg.headers : p[1] \notin Keys(arg.headers) => p \in sent.headers
    /\ sent.headers \subseteq cfg.headers \cup arg.headers
    /\ \A p, q \in sent.headers : p[1] = q[1] => p = q

C18_Witness ==
  /\ Called
  /\ cfg.headers = AuthHeaders
  /\ <<"Accept", "text/plain">> \in arg.headers
  /\ sent.headers =
       {<<"Accept", "text/plain">>, <<"X-Trace", "t">>, <<"api-key", "key">>}

\* The string without its last character when that is a slash.
TrimOneTrailing(str) ==
  IF str # <<>> /\ str[Len(str)] = "/" THEN SubSeq(str, 1, Len(str) - 1) ELSE str
\* The string without its first character when that is a slash.
TrimOneLeading(str) ==
  IF str # <<>> /\ str[1] = "/" THEN SubSeq(str, 2, Len(str)) ELSE str

\* C19, as stated: the URL is the base URL less exactly one trailing slash,
\* a '/', and the endpoint less exactly one leading slash, further slashes
\* being kept.
C19_TrimsExactlyOneSlash ==
  Called =>
    sent.url = TrimOneTrailing(ctor.base_url) \o <<"/">> \o TrimOneLeading(arg.endpoint)

\* C19, amended: the URL is the base URL less all its trailing slashes, a
\* '/', and the endpoint less all its leading slashes.
C19_TrimsEverySlash ==
  Called =>
    \E i \in 0..Len(ctor.base_url), j \in 0..Len(arg.endpoint) :
      /\ i = 0 \/ ctor.base_url[i] # "/"
      /\ \A k \in (i + 1)..Len(ctor.base_url) : ctor.base_url[k] = "/"
      /\ j = Len(arg.endpoint) \/ arg.endpoint[j + 1] # "/"
      /\ \A k \in 1..j : arg.endpoint[k] = "/"
      /\ sent.url = SubSeq(ctor.base_url, 1, i) \o <<"/">>
                      \o SubSeq(arg.endpoint, j + 1, Len(arg.endpoint))

C19_Witness ==
  /\ ctor.base_url = <<"a", "/">>
  /\ arg.endpoint = <<"/", "/", "a">>
  /\ sent.url = <<"a", "/", "a">>

\* C20: no step of connect(), close() or request() changes base_url, the
\* default headers, the default timeout or max_retries, and base_url never
\* ends with a slash.
C20_ConfigurationFrozen ==
  /\ [](cfg.base_url = <<>> \/ cfg.base_url[Len(cfg.base_url)] # "/")
  /\ [][cfg' = cfg]_vars

C20_Witness ==
  /\ ctor.base_url = <<"a", "/">> /\ cfg.base_url = <<"a">>
  /\ Called
  /\ Keys(arg.headers) \cap Keys(cfg.headers) # {}
  /\ arg.timeout = PerCallTimeout
  /\ closedSet # {}
  /\ lastOp = "connect_new"

\* A request() or a connect() has been called.
Used == lastOp \in {"connect_new", "connect_noop"} \/ \E r \in Reqs : pc[r] # "idle"

\* C21: while no session has been closed, the requests and connect() calls
\* made so far have constructed exactly one session between them and every
\* transport call in flight goes through it; with or without close(), at
\* most one session is open at any moment.
C21_OneSessionReused ==
  /\ Cardinality(LiveSessions) <= 1
  /\ closedSet = {} =>
       /\ created <= 1
       /\ Used => created = 1 /\ session = 1
       /\ \A r \in Reqs : pc[r] = "inflight" => via[r] = session

C21_Witness ==
  /\ closedSet = {}
  /\ lastOp = "connect_noop"
  /\ created = 1 /\ creator[1] = "request"
  /\ \A r \in Reqs : pc[r] = "inflight" /\ via[r] = 1

\* C22, as stated: the timeout of a call is the per-call timeout when the
\* caller gives one (anything but None), and the client's default otherwise.
C22_TimeoutOverrideOrDefault ==
  Called =>
    sent.timeout = (IF arg.timeout # NoneT THEN arg.timeout ELSE cfg.timeout)

\* C23: without a limiter no request ever waits for or holds a permit, and
\* a request that has not started can start its transport call at once,
\* however many calls are in flight; with a limiter the pool starts with
\* Permits permits, nobody waiting or holding.
C23_LimiterPassThroughOrFull ==
  /\ rateLimited => (permits = Permits /\ waiters = <<>> /\ held = {})
  /\ [](~rateLimited =>
          /\ waiters = <<>> /\ held = {}
          /\ \A r \in Reqs :
               /\ pc[r] \notin {"waiting", "holding"}
               /\ (pc[r] = "idle" /\ session # 0 /\ session \notin closedSet)
                    => ENABLED (Attempt(r) /\ pc'[r] = "inflight"))

C23_Witness ==
  /\ ~rateLimited
  /\ Cardinality(InFlight) = NumReq
  /\ NumReq > Permits

Replied(r) == reply[r].kind # "none"

C27_NoContentIsToolError ==
  \A r \in Reqs :
    (outs[r] # <<>> /\ StatusOf(Last(outs[r])) = HTTP_NO_CONTENT) =>
      /\ result[r].cls = "empty"
      /\ Replied(r) =>
           /\ reply[r].given = {EmptyPayload}
           /\ ValidateResponse(EmptyPayload).code = "EMPTY_RESPONSE"
           /\ reply[r].kind = "error"
           /\ reply[r].message = "Empty response"
           /\ reply[r].code = ErrorCodeOf(ToolOf(r))

C27_Witness ==
  \E r \in Reqs :
    /\ ToolOf(r) = "delete_vm"
    /\ outs[r] = <<"noContent">>
    /\ reply[r].kind = "error" /\ reply[r].code = "delete_vm_error"

\* C28: a tool handler lets no HyperstackMCPError go: an APIError, a
\* RateLimitError, a RequestTimeoutError of the client call, or a failure of
\* validate_response, gives the error response with the handler's own
\* code; a success response is given only when the client call returned a
\* payload that validate_response accepts.
C28_HandlerCatchesMCPErrors ==
  \A r \in Reqs :
    Replied(r) =>
      /\ IsMCPError(result[r]) =>
           (reply[r].kind = "error" /\ reply[r].code = ErrorCodeOf(ToolOf(r)))
      /\ \A p \in reply[r].given :
           ValidateResponse(p).raised =>
             (reply[r].kind = "error" /\ reply[r].code = ErrorCodeOf(ToolOf(r)))
      /\ reply[r].kind = "escaped" =>
           (~IsMCPError(result[r]) /\ result[r].cls \notin {"payload", "empty"})
      /\ reply[r].kind = "success" =>
           /\ result[r].cls \in {"payload", "empty"}
           /\ \E p \in reply[r].given : ~ValidateResponse(p).raised

C28_Witness ==
  \E r, q \in Reqs :
    /\ result[r].cls = "RateLimitError"
    /\ reply[r].kind = "error" /\ reply[r].code = "create_vm_error"
    /\ result[q].cls = "RequestTimeoutError"
    /\ reply[q].kind = "error" /\ reply[q].code = "delete_vm_error"

\* C29: validate_response raises for the first check that fails, in the
\* order: empty payload (EMPTY_RESPONSE), "error" key (error_code, else
\* API_ERROR), status false (error_code, else API_ERROR), schema
\* (VALIDATION_ERROR); a payload that passes them all is returned as given.
C29_ValidateResponseOrder ==
  \A r \in Reqs : \A p \in reply[r].given :
    LET v == ValidateResponse(p)
        own == IF p.error_code = "absent" THEN "API_ERROR" ELSE p.error_code
    IN /\ p.empty => (v.raised /\ v.code = "EMPTY_RESPONSE")
       /\ (~p.empty /\ p.error) =>
            (v.raised /\ v.code = own /\ v.message = "error")
       /\ (~p.empty /\ ~p.error /\ p.status = "false") =>
            (v.raised /\ v.code = own /\ v.message = "message")
       /\ (~p.empty /\ ~p.error /\ p.status # "false" /\ ~p.valid) =>
            (v.raised /\ v.code = "VALIDATION_ERROR")
       /\ (~p.empty /\ ~p.error /\ p.status # "false" /\ p.valid) =>
            (~v.raised /\ v.ret = {p})
       /\ v.raised => (reply[r].kind = "error" /\ reply[r].message = v.message)
       /\ ~v.raised =>
            /\ reply[r].kind = "success"
            /\ ToolOf(r) = "create_vm" => reply[r].data = {p}

C29_Witness ==
  \E r, q \in Reqs :
    /\ \E p \in reply[r].given :
         /\ p.error /\ p.status = "false" /\ ~p.valid /\ p.error_code = "E_CODE"
         /\ reply[r].message = "error"
    /\ \E p \in reply[q].given :
         /\ ~p.error /\ p.status = "true" /\ p.valid
         /\ reply[q].kind = "success" /\ reply[q].data = {p}

====
